---- MODULE Spec2Model ----
(***************************************************************************)
(* Model of the bitrate decision engine of vod-encoding-bench:             *)
(*   getBitrateStrategy / adjustSearchRange  (resolution_strategy.mjs)     *)
(*   adaptiveBitrateSearch                   (bitrate probe coordinator)   *)
(*   buildSegments                           (scene_detect.mjs)            *)
(*   runPerSceneFlow                         (run_experiment.mjs)          *)
(*                                                                         *)
(* Number representation.  The JavaScript code computes on doubles.  The   *)
(* model keeps every quantity as an exact fixed-point integer:             *)
(*   - a bitrate b is the integer b * Unit          (1/8 kbps steps),      *)
(*   - a VMAF score s is the integer s * 100 * Unit (1/800 point steps),   *)
(*     so that the synthetic oracle score = bitrate/100 maps a stored      *)
(*     bitrate to the stored score of the same integer,                    *)
(*   - a time t is the integer t * TimeUnit         (0.1 ms steps).        *)
(* Math.round is round-half-up on the exact value.                         *)
(***************************************************************************)
EXTENDS Integers, Sequences, FiniteSets, TLC

VARIABLES
    \* ---- one call of adaptiveBitrateSearch ----
    pc,                     \* position in adaptiveBitrateSearch
    height,                 \* params.height
    targetVmaf,             \* params.targetVmaf
    previousSegmentResult,  \* <<>> for null, else <<[chosenBitrateKbps, estVmaf]>>
    oracle,                 \* how measureVmaf answers: "free" or "linear"
    range,                  \* const {min, max} = adjustSearchRange(...)
    minBitrate,
    maxBitrate,
    currentBitrate,
    probeCount,
    probeResults,           \* sequence of [kbps, vmaf]
    encodeCalls,            \* number of encodeSegment calls issued so far
    result,                 \* <<>> until returned, else <<[chosenBitrateKbps, estVmaf, probesUsed]>>
    \* ---- one call of buildSegments ----
    segPc,                  \* position in buildSegments
    sceneCuts,
    totalDur,
    minDurSec,
    maxDurSec,
    segs,                   \* sequence of [start, dur, end]
    curStart,
    idx,
    returnedSegs,           \* the lists returned by the calls made so far, in order
    \* ---- one run of the experiment driver (main / runPerSceneFlow) ----
    drvPc,                  \* position in main
    modeIndex,              \* position of the for loop over modesToRun
    cfgIndex,               \* position of the nested height/codec/implementation loops
    index,                  \* the segment loop's index
    prevResult,             \* previousResult of runPerSceneFlow: <<>> for null, else <<decision>>
    plan,
    summaryRows,
    written,                \* <<>> until the summary file is written, else <<rows>>
    calls,                  \* the decideBitrateForSegment and runPerSceneEncode calls made so far
    \* ---- one call of decideBitrateForSegment with useAdaptiveSearch = false ----
    linPc,
    probeBitratesKbps,      \* the candidate list, in the order given
    linTargetVmaf,          \* targetVmaf of the call
    candidates,
    linEncodeCalls,         \* encodeSegment calls issued so far
    linResult,              \* <<>> until the call returns, else <<returned object>>
    \* ---- configs/experiment_matrix.json, as read by main ----
    useAdaptiveBitrateSearch,   \* "true", "false", or "missing" when the key is absent
    \* ---- the segment loop of one configuration around adaptiveBitrateSearch ----
    callIndex,                  \* number of the call within the configuration, from 1
    \* ---- one configuration on its way through the driver and the two encoders ----
    encPc,
    encCodec,
    encImplementation,
    encBitrateKbps,
    encGopFrames,
    probeArgs,                  \* <<>> until encodeSegment has its videoArgs, else <<videoArgs>>
    finalArgs,                  \* <<>> until exportFinalSegment has its videoArgs, else <<videoArgs>>
    \* ---- the experiment server and its worker threads ----
    tasks,                      \* the Map tasks: task id -> task, status "none" for an id not in the Map
    workers                     \* task id -> the worker thread of the task and its events in flight

decideVars == <<pc, height, targetVmaf, previousSegmentResult, oracle, range,
                minBitrate, maxBitrate, currentBitrate, probeCount, probeResults,
                encodeCalls, result>>

segVars == <<segPc, sceneCuts, totalDur, minDurSec, maxDurSec, segs, curStart, idx, returnedSegs>>

drvVars == <<drvPc, modeIndex, cfgIndex, index, prevResult, plan, summaryRows,
             written, calls>>

linVars == <<linPc, probeBitratesKbps, linTargetVmaf, candidates, linEncodeCalls, linResult>>

\* the configuration file is read once and never written
cfgVars == <<useAdaptiveBitrateSearch>>

\* the loop variable of the caller; a call of adaptiveBitrateSearch does not see it
chainVars == <<callIndex>>

encVars == <<encPc, encCodec, encImplementation, encBitrateKbps, encGopFrames,
             probeArgs, finalArgs>>

srvVars == <<tasks, workers>>

vars == <<decideVars, segVars, drvVars, linVars, cfgVars, chainVars, encVars, srvVars>>

\* what the actions of one component leave alone
NotDecide == UNCHANGED <<segVars, drvVars, linVars, cfgVars, chainVars, encVars, srvVars>>
NotSeg == UNCHANGED <<decideVars, drvVars, linVars, cfgVars, chainVars, encVars, srvVars>>
NotDrv == UNCHANGED <<decideVars, segVars, linVars, cfgVars, chainVars, encVars, srvVars>>
NotLin == UNCHANGED <<decideVars, segVars, drvVars, cfgVars, chainVars, encVars, srvVars>>
NotEnc == UNCHANGED <<decideVars, segVars, drvVars, linVars, cfgVars, chainVars, srvVars>>
NotSrv == UNCHANGED <<decideVars, segVars, drvVars, linVars, cfgVars, chainVars, encVars>>

----------------------------------------------------------------------------
(* Fixed-point helpers *)

Unit == 8

Kbps(k) == k * Unit

\* a score given in hundredths of a VMAF point
Score(hundredths) == hundredths * Unit

\* variant of RoundKbps: Math.round left out, the quotient kept as it is
RoundKbpsOmitted(n, d) == (Unit * n) \div d

\* variant of RoundKbps: Math.floor in place of Math.round
RoundKbpsTruncating(n, d) == Unit * (n \div d)

\* Math.round(n / d) for d > 0, as a stored bitrate: floor(n/d + 1/2) kbps
RoundKbps(n, d) == Unit * ((2 * n + d) \div (2 * d))

\* Math.round(c * m / d) kbps for c, m >= 0 and d a multiple of 500, computed
\* without leaving 32-bit integers:
\*   floor((2cm + d) / 2d) = floor((2c*(m div 1000) + floor((2c*(m mod 1000) + d) / 1000)) / (2d/1000))
RoundProdKbps(c, m, d) ==
    Unit * ((2 * c * (m \div 1000) + ((2 * c * (m % 1000) + d) \div 1000)) \div ((2 * d) \div 1000))

Min2(a, b) == IF a <= b THEN a ELSE b
Max2(a, b) == IF a >= b THEN a ELSE b
\* variant of Abs: Math.abs left out
AbsOmitted(a) == a

Abs(a) == IF a < 0 THEN -a ELSE a

----------------------------------------------------------------------------
(* resolution_strategy.mjs *)

\* the literal table of getBitrateStrategy
strategies ==
    [h \in {2160, 1440, 1080, 720, 480, 360} |->
        CASE h = 2160 -> [min |-> Kbps(5000), max |-> Kbps(20000), maxProbes |-> 6]
          [] h = 1440 -> [min |-> Kbps(3000), max |-> Kbps(12000), maxProbes |-> 6]
          [] h = 1080 -> [min |-> Kbps(1500), max |-> Kbps(10000), maxProbes |-> 6]
          [] h = 720  -> [min |-> Kbps(800),  max |-> Kbps(5000),  maxProbes |-> 5]
          [] h = 480  -> [min |-> Kbps(400),  max |-> Kbps(2500),  maxProbes |-> 5]
          [] h = 360  -> [min |-> Kbps(300),  max |-> Kbps(1500),  maxProbes |-> 4]]

\* Object.keys(strategies).map(Number).sort((a, b) => b - a)
RECURSIVE SortDesc(_)
SortDesc(S) ==
    IF S = {} THEN <<>>
    ELSE LET m == CHOOSE x \in S : \A y \in S : y <= x
         IN  <<m>> \o SortDesc(S \ {m})

\* variant of heights: the comparator reversed, (a, b) => a - b
heightsAscending ==
    LET sorted == SortDesc(DOMAIN strategies)
    IN  [i \in 1..Len(sorted) |-> sorted[Len(sorted) + 1 - i]]

heights == SortDesc(DOMAIN strategies)

\* variant of closestHeight: height > h in place of height >= h
closestHeightStrict(h) ==
    LET found == {i \in 1..Len(heights) : h > heights[i]}
    IN  IF found = {} THEN heights[Len(heights)]
        ELSE heights[CHOOSE i \in found : \A j \in found : i <= j]

\* heights.find((h) => height >= h) || heights[heights.length - 1]
closestHeight(h) ==
    LET found == {i \in 1..Len(heights) : h >= heights[i]}
    IN  IF found = {} THEN heights[Len(heights)]
        ELSE heights[CHOOSE i \in found : \A j \in found : i <= j]

getBitrateStrategy(h) == strategies[closestHeight(h)]

\* variant of adjustSearchRange: the sign of vmafGap tested before its size,
\* so that a previous result below the target always shifts the range up
adjustSearchRangeShiftFirst(strategy, previousResult, target) ==
    IF previousResult = <<>>
    THEN [min |-> strategy.min, max |-> strategy.max]
    ELSE
      LET chosenBitrateKbps == previousResult[1].chosenBitrateKbps
          vmafGap == target - previousResult[1].estVmaf
          multiplier == Score(10000) + vmafGap
      IN  IF vmafGap > 0
          THEN [min |-> Max2(strategy.min, chosenBitrateKbps),
                max |-> Min2(strategy.max,
                             RoundProdKbps(chosenBitrateKbps, multiplier * 3,
                                           Unit * Score(10000) * 2))]
          ELSE IF Abs(vmafGap) < Score(300)
          THEN [min |-> Max2(strategy.min, RoundKbps(7 * chosenBitrateKbps, 10 * Unit)),
                max |-> Min2(strategy.max, RoundKbps(13 * chosenBitrateKbps, 10 * Unit))]
          ELSE [min |-> Max2(strategy.min,
                             RoundProdKbps(chosenBitrateKbps, multiplier * 7,
                                           Unit * Score(10000) * 10)),
                max |-> Min2(strategy.max, chosenBitrateKbps)]

\* adjustSearchRange(strategy, previousResult, targetVmaf); previousResult is
\* <<>> for null and <<r>> for the record r
adjustSearchRange(strategy, previousResult, target) ==
    IF previousResult = <<>>
    THEN [min |-> strategy.min, max |-> strategy.max]
    ELSE
      LET chosenBitrateKbps == previousResult[1].chosenBitrateKbps
          estVmaf == previousResult[1].estVmaf
          vmafGap == target - estVmaf
          \* multiplier = 1 + vmafGap / 100, as the numerator over Score(10000)
          multiplier == Score(10000) + vmafGap
      IN  IF Abs(vmafGap) < Score(300)
          THEN [min |-> Max2(strategy.min, RoundKbps(7 * chosenBitrateKbps, 10 * Unit)),
                max |-> Min2(strategy.max, RoundKbps(13 * chosenBitrateKbps, 10 * Unit))]
          ELSE IF vmafGap > 0
          THEN [min |-> Max2(strategy.min, chosenBitrateKbps),
                max |-> Min2(strategy.max,
                             RoundProdKbps(chosenBitrateKbps, multiplier * 3,
                                           Unit * Score(10000) * 2))]
          ELSE [min |-> Max2(strategy.min,
                             RoundProdKbps(chosenBitrateKbps, multiplier * 7,
                                           Unit * Score(10000) * 10)),
                max |-> Min2(strategy.max, chosenBitrateKbps)]


----------------------------------------------------------------------------
(* adaptiveBitrateSearch *)

strategy == getBitrateStrategy(height)
maxProbes == strategy.maxProbes
targetMin == targetVmaf
targetMax == targetVmaf + Score(50)

InBandScore(v) == v >= targetMin /\ v <= targetMax
InBand(r) == InBandScore(r.vmaf)
Acceptable(r) == r.vmaf >= targetMin

\* measureVmaf as seen by the search: the free oracle may answer any score of
\* FreeScores; the linear oracle answers clamp(bitrate / 100, 0, 100); the
\* wide oracle may answer any score of WideScores, the ends of the VMAF scale
\* [0, 100] among them
FreeScores ==
    {targetVmaf - Score(500), targetVmaf - Score(200), targetVmaf,
     targetVmaf + Score(50), targetVmaf + Score(51)}

WideScores == {0, targetVmaf, Score(10000)}

measureVmaf(bitrate) ==
    IF oracle = "linear"
    THEN {Max2(0, Min2(Score(10000), bitrate))}
    ELSE IF oracle = "wide" THEN WideScores
    ELSE FreeScores

\* variant of LoopCondition: the test maxBitrate - minBitrate > 200 left out
LoopConditionWithoutWidth == probeCount < maxProbes

\* while (probeCount < maxProbes && maxBitrate - minBitrate > 200)
LoopCondition == probeCount < maxProbes /\ maxBitrate - minBitrate > Kbps(200)

\* variant of BonusCondition: the test probeCount < maxProbes left out
BonusConditionWithoutBudget == SelectSeq(probeResults, Acceptable) = <<>>

\* the condition of the extra probe after the loop
BonusCondition ==
    /\ SelectSeq(probeResults, Acceptable) = <<>>
    /\ probeCount < maxProbes

\* variant of highBitrate: maxBitrate * 1.5 without the cap at strategy.max
highBitrateUncapped == (3 * maxBitrate) \div 2

\* Math.min(strategy.max, maxBitrate * 1.5)
highBitrate == Min2(strategy.max, (3 * maxBitrate) \div 2)

\* variant of LowestKbps: the comparator reversed, (a, b) => b.kbps - a.kbps
HighestKbps(seq) ==
    seq[CHOOSE i \in 1..Len(seq) :
          \A j \in 1..Len(seq) :
             \/ seq[j].kbps < seq[i].kbps
             \/ seq[j].kbps = seq[i].kbps /\ j >= i]

\* seq.sort((a, b) => a.kbps - b.kbps)[0]: the lowest bitrate, the earliest
\* pushed among equals (Array.prototype.sort is stable)
LowestKbps(seq) ==
    seq[CHOOSE i \in 1..Len(seq) :
          \A j \in 1..Len(seq) :
             \/ seq[j].kbps > seq[i].kbps
             \/ seq[j].kbps = seq[i].kbps /\ j >= i]

\* variant of HighestVmaf: the first probe pushed, without the sort
FirstProbe(seq) == seq[1]

\* seq.sort((a, b) => b.vmaf - a.vmaf)[0]
HighestVmaf(seq) ==
    seq[CHOOSE i \in 1..Len(seq) :
          \A j \in 1..Len(seq) :
             \/ seq[j].vmaf < seq[i].vmaf
             \/ seq[j].vmaf = seq[i].vmaf /\ j >= i]

\* lines 452-479: the selection among the recorded probes
select(probes) ==
    LET inRange == SelectSeq(probes, InBand)
        acceptable == SelectSeq(probes, Acceptable)
    IN  IF inRange # <<>> THEN LowestKbps(inRange)
        ELSE IF acceptable # <<>> THEN LowestKbps(acceptable)
        ELSE HighestVmaf(probes)

chosen == select(probeResults)

\* variant of probesUsed: the loop counter probeCount in place of probeResults.length
probesCounted == probeCount

\* probesUsed: probeResults.length
probesUsed == Len(probeResults)

\* lines 338-363: strategy, adjusted range, reference encode, first candidate
Start ==
    /\ pc = "start"
    /\ LET r == adjustSearchRange(strategy, previousSegmentResult, targetVmaf)
       IN  /\ range' = r
           /\ minBitrate' = r.min
           /\ maxBitrate' = r.max
           /\ currentBitrate' = RoundKbps(r.min + r.max, 2 * Unit)
    /\ probeCount' = 0
    /\ probeResults' = <<>>
    /\ pc' = "loop"
    /\ UNCHANGED <<height, targetVmaf, previousSegmentResult, oracle, encodeCalls, result>>
    /\ NotDecide

\* variant of LoopBody: no break on an in-band probe, the loop goes on to
\* the bracket update with max = candidate
LoopBodyWithoutBreak(vmafScore) ==
    LET pushed == Append(probeResults, [kbps |-> currentBitrate, vmaf |-> vmafScore])
        newMax == IF vmafScore < targetMin THEN maxBitrate ELSE currentBitrate
        newMin == IF vmafScore < targetMin THEN currentBitrate ELSE minBitrate
        nextBitrate == RoundKbps(newMin + newMax, 2 * Unit)
        stop == nextBitrate = currentBitrate \/ Abs(nextBitrate - currentBitrate) < Kbps(100)
    IN  /\ probeResults' = pushed
        /\ probeCount' = probeCount + 1
        /\ minBitrate' = newMin
        /\ maxBitrate' = newMax
        /\ IF stop
           THEN pc' = "bonus" /\ UNCHANGED currentBitrate
           ELSE pc' = "loop" /\ currentBitrate' = nextBitrate

\* one iteration of the while loop, the probe answering vmafScore
LoopBody(vmafScore) ==
    LET pushed == Append(probeResults, [kbps |-> currentBitrate, vmaf |-> vmafScore])
        found == InBandScore(vmafScore) /\ SelectSeq(pushed, InBand) # <<>>
        newMax == IF vmafScore > targetMax THEN currentBitrate
                  ELSE IF vmafScore < targetMin THEN maxBitrate
                  ELSE currentBitrate
        newMin == IF vmafScore > targetMax THEN minBitrate
                  ELSE IF vmafScore < targetMin THEN currentBitrate
                  ELSE minBitrate
        nextBitrate == RoundKbps(newMin + newMax, 2 * Unit)
        stop == nextBitrate = currentBitrate \/ Abs(nextBitrate - currentBitrate) < Kbps(100)
    IN  /\ probeResults' = pushed
        /\ probeCount' = probeCount + 1
        /\ IF found
           THEN /\ pc' = "bonus"
                /\ UNCHANGED <<minBitrate, maxBitrate, currentBitrate>>
           ELSE /\ minBitrate' = newMin
                /\ maxBitrate' = newMax
                /\ IF stop
                   THEN pc' = "bonus" /\ UNCHANGED currentBitrate
                   ELSE pc' = "loop" /\ currentBitrate' = nextBitrate

Probe ==
    /\ pc = "loop"
    /\ LoopCondition
    /\ \E vmafScore \in measureVmaf(currentBitrate) : LoopBody(vmafScore)
    /\ encodeCalls' = encodeCalls + 1
    /\ UNCHANGED <<height, targetVmaf, previousSegmentResult, oracle, range, result>>
    /\ NotDecide

LoopEnd ==
    /\ pc = "loop"
    /\ ~LoopCondition
    /\ pc' = "bonus"
    /\ UNCHANGED <<height, targetVmaf, previousSegmentResult, oracle, range,
                   minBitrate, maxBitrate, currentBitrate, probeCount, probeResults,
                   encodeCalls, result>>
    /\ NotDecide

\* lines 423-450: the extra probe at highBitrate (probeCount is not incremented)
BonusProbe ==
    /\ pc = "bonus"
    /\ BonusCondition
    /\ \E vmafScore \in measureVmaf(highBitrate) :
          probeResults' = Append(probeResults, [kbps |-> highBitrate, vmaf |-> vmafScore])
    /\ pc' = "select"
    /\ encodeCalls' = encodeCalls + 1
    /\ UNCHANGED <<height, targetVmaf, previousSegmentResult, oracle, range,
                   minBitrate, maxBitrate, currentBitrate, probeCount, result>>
    /\ NotDecide

NoBonus ==
    /\ pc = "bonus"
    /\ ~BonusCondition
    /\ pc' = "select"
    /\ UNCHANGED <<height, targetVmaf, previousSegmentResult, oracle, range,
                   minBitrate, maxBitrate, currentBitrate, probeCount, probeResults,
                   encodeCalls, result>>
    /\ NotDecide

\* lines 452-489; chosen.kbps of an empty probeResults raises a TypeError
Return ==
    /\ pc = "select"
    /\ IF probeResults = <<>>
       THEN pc' = "thrown" /\ UNCHANGED result
       ELSE /\ result' = <<[chosenBitrateKbps |-> chosen.kbps,
                            estVmaf |-> chosen.vmaf,
                            probesUsed |-> probesUsed]>>
            /\ pc' = "done"
    /\ UNCHANGED <<height, targetVmaf, previousSegmentResult, oracle, range,
                   minBitrate, maxBitrate, currentBitrate, probeCount, probeResults,
                   encodeCalls>>
    /\ NotDecide

\* lines 338-344 when encodeReference throws: the range is computed, the error
\* leaves adaptiveBitrateSearch
ReferenceFailure ==
    /\ pc = "start"
    /\ range' = adjustSearchRange(strategy, previousSegmentResult, targetVmaf)
    /\ pc' = "thrown"
    /\ UNCHANGED <<height, targetVmaf, previousSegmentResult, oracle,
                   minBitrate, maxBitrate, currentBitrate, probeCount, probeResults,
                   encodeCalls, result>>
    /\ NotDecide

\* encodeSegment or measureVmaf throws inside the loop or the extra probe: the
\* encode was issued, nothing is recorded, the error leaves adaptiveBitrateSearch
ProbeFailure ==
    /\ (pc = "loop" /\ LoopCondition) \/ (pc = "bonus" /\ BonusCondition)
    /\ pc' = "thrown"
    /\ encodeCalls' = encodeCalls + 1
    /\ UNCHANGED <<height, targetVmaf, previousSegmentResult, oracle, range,
                   minBitrate, maxBitrate, currentBitrate, probeCount, probeResults, result>>
    /\ NotDecide

----------------------------------------------------------------------------
(* The calls explored: inputs of one adaptiveBitrateSearch call *)

Heights == {50, 360, 480, 719, 720, 1080, 1440, 2160, 4320}
Targets == {Score(9500)}

PrevGridKbps == 1225
PrevGridSize == 3
PrevBitrates == {Kbps(PrevGridKbps * k) : k \in 1..PrevGridSize} \cup {Kbps(12000)}
PrevGaps == {Score(-600), Score(-300), Score(-50), Score(0), Score(299), Score(300), Score(600)}

\* const previous = { chosenBitrateKbps: 3000, estVmaf: 94.5 } of the @example
\* of adjustSearchRange
previous == [chosenBitrateKbps |-> Kbps(3000), estVmaf |-> Score(9450)]

PreviousResults(t) ==
    {<<>>, <<previous>>}
        \cup {<<[chosenBitrateKbps |-> b, estVmaf |-> t - g]>> : b \in PrevBitrates, g \in PrevGaps}

DecideInit ==
    /\ pc = "start"
    /\ height \in Heights
    /\ targetVmaf \in Targets
    /\ previousSegmentResult \in PreviousResults(targetVmaf)
    /\ oracle \in {"free", "linear"}
    /\ range = [min |-> 0, max |-> 0]
    /\ minBitrate = 0
    /\ maxBitrate = 0
    /\ currentBitrate = 0
    /\ probeCount = 0
    /\ probeResults = <<>>
    /\ encodeCalls = 0
    /\ result = <<>>

\* the component is not running
DecideIdle ==
    /\ pc = "idle"
    /\ height = 0
    /\ targetVmaf = 0
    /\ previousSegmentResult = <<>>
    /\ oracle = "free"
    /\ range = [min |-> 0, max |-> 0]
    /\ minBitrate = 0
    /\ maxBitrate = 0
    /\ currentBitrate = 0
    /\ probeCount = 0
    /\ probeResults = <<>>
    /\ encodeCalls = 0
    /\ result = <<>>

----------------------------------------------------------------------------
(* The chain of calls of one configuration: the caller's segment loop hands
   the object returned by one call to the next call as previousSegmentResult *)

\* number of segments of the chain
MaxChain == 2

\* the next iteration of the segment loop: previousResult = result, then
\* decideBitrateForSegment is called for the next segment with the same
\* height and target; the locals of the new call are fresh.  Of the object
\* handed on, adjustSearchRange reads chosenBitrateKbps and estVmaf only.
NextCall ==
    /\ pc = "done"
    /\ callIndex < MaxChain
    /\ callIndex' = callIndex + 1
    /\ previousSegmentResult' = <<[chosenBitrateKbps |-> result[1].chosenBitrateKbps,
                                    estVmaf |-> result[1].estVmaf]>>
    /\ pc' = "start"
    /\ range' = [min |-> 0, max |-> 0]
    /\ minBitrate' = 0
    /\ maxBitrate' = 0
    /\ currentBitrate' = 0
    /\ probeCount' = 0
    /\ probeResults' = <<>>
    /\ encodeCalls' = 0
    /\ result' = <<>>
    /\ UNCHANGED <<height, targetVmaf, oracle>>
    /\ UNCHANGED <<segVars, drvVars, linVars, cfgVars, encVars, srvVars>>

\* the tiers of the chains explored: one for each probe budget of the table
ChainHeights == {360, 720, 1440}
ChainTargets == {0, Score(9500), Score(10000)}

\* the first call of a configuration: let previousResult = null
ChainInit ==
    /\ callIndex = 1
    /\ pc = "start"
    /\ height \in ChainHeights
    /\ targetVmaf \in ChainTargets
    /\ previousSegmentResult = <<>>
    /\ oracle \in {"wide", "linear"}
    /\ range = [min |-> 0, max |-> 0]
    /\ minBitrate = 0
    /\ maxBitrate = 0
    /\ currentBitrate = 0
    /\ probeCount = 0
    /\ probeResults = <<>>
    /\ encodeCalls = 0
    /\ result = <<>>

ChainIdle == callIndex = 0

----------------------------------------------------------------------------
(* scene_detect.mjs: buildSegments *)

\* a time given in milliseconds; times are stored in 0.1 ms steps
Ms(m) == m * 10

\* +(x).toFixed(3): x rounded to the millisecond, halves upward
toFixed3(t) == Ms((t + 5) \div 10)

\* while (curStart < totalDur - 0.01)
SegLoopCondition == curStart < totalDur - Ms(10)

\* variant of minT: the window opens at curStart, minDurSec dropped
minTWithoutMinDur == curStart

minT == curStart + minDurSec

\* variant of maxT: curStart + maxDurSec without the cap at totalDur
maxTUnclamped == curStart + maxDurSec

maxT == Min2(curStart + maxDurSec, totalDur)

\* while (idx < sceneCuts.length && sceneCuts[idx] < minT) idx++
\* (idx is the JavaScript index: sceneCuts[idx] is the model's sceneCuts[idx + 1])
RECURSIVE skipCuts(_, _)
skipCuts(i, t) ==
    IF i < Len(sceneCuts) /\ sceneCuts[i + 1] < t THEN skipCuts(i + 1, t) ELSE i

\* variant of pickCut: the scan stops at the first cut of the window
pickCutFirst(j, t, pick) ==
    IF j < Len(sceneCuts) /\ sceneCuts[j + 1] <= t
    THEN <<sceneCuts[j + 1]>>
    ELSE pick

\* let j = idx; while (j < sceneCuts.length && sceneCuts[j] <= maxT) { pick = sceneCuts[j]; j++ }
\* <<>> is null, <<t>> the picked cut
RECURSIVE pickCut(_, _, _)
pickCut(j, t, pick) ==
    IF j < Len(sceneCuts) /\ sceneCuts[j + 1] <= t
    THEN pickCut(j + 1, t, <<sceneCuts[j + 1]>>)
    ELSE pick

\* the longest list followed: a call that returns builds a shorter one, a
\* call that does not return is followed up to this length
MaxSegs == 20

\* one iteration of the outer while loop (lines 68-80)
SegStep ==
    /\ segPc = "loop"
    /\ SegLoopCondition
    /\ Len(segs) < MaxSegs
    /\ LET newIdx == skipCuts(idx, minT)
           pick == pickCut(newIdx, maxT, <<>>)
           end == IF pick = <<>> THEN maxT ELSE pick[1]
           dur == toFixed3(end - curStart)
       IN  /\ idx' = newIdx
           /\ segs' = Append(segs, [start |-> curStart, dur |-> dur, end |-> end])
           /\ curStart' = end
    /\ UNCHANGED <<segPc, sceneCuts, totalDur, minDurSec, maxDurSec, returnedSegs>>
    /\ NotSeg

\* return segs (line 82)
SegReturn ==
    /\ segPc = "loop"
    /\ ~SegLoopCondition
    /\ segPc' = "done"
    /\ returnedSegs' = Append(returnedSegs, segs)
    /\ UNCHANGED <<sceneCuts, totalDur, minDurSec, maxDurSec, segs, curStart, idx>>
    /\ NotSeg

\* the caller calls buildSegments NumCalls times with the same arguments
NumCalls == 2

\* variant of SegCall: idx kept across calls, as a variable declared outside
\* the function would be
SegCallKeepingIdx ==
    /\ segPc = "done"
    /\ Len(returnedSegs) < NumCalls
    /\ segs' = <<>>
    /\ curStart' = 0
    /\ segPc' = "loop"
    /\ UNCHANGED <<sceneCuts, totalDur, minDurSec, maxDurSec, returnedSegs, idx>>
    /\ NotSeg

\* another call with the same arguments: let segs = [], curStart = 0.0,
\* idx = 0 (lines 64-66)
SegCall ==
    /\ segPc = "done"
    /\ Len(returnedSegs) < NumCalls
    /\ segs' = <<>>
    /\ curStart' = 0
    /\ idx' = 0
    /\ segPc' = "loop"
    /\ UNCHANGED <<sceneCuts, totalDur, minDurSec, maxDurSec, returnedSegs>>
    /\ NotSeg

\* the inputs explored
MaxCuts == 3
CutPool == {Ms(0), Ms(5), Ms(3999), Ms(4000), Ms(5200), Ms(8000), Ms(8001),
            Ms(9995), Ms(12500), Ms(29995)} \cup {39999, 40001}

RECURSIVE AscendingLists(_, _)
AscendingLists(S, n) ==
    IF n = 0 THEN {<<>>}
    ELSE LET shorter == AscendingLists(S, n - 1)
         IN  shorter \cup
             {Append(l, c) : l \in {x \in shorter : Len(x) = n - 1},
                             c \in S} 

IsAscending(l) == \A i \in 1..(Len(l) - 1) : l[i] < l[i + 1]

CutLists ==
    {l \in AscendingLists(CutPool, MaxCuts) : IsAscending(l)}
    \cup {<<Ms(5200), Ms(12500), Ms(18300), Ms(25600)>>}

TotalDurs == {-Ms(1000), 0, Ms(5), Ms(10), 101, Ms(4000), Ms(10000), Ms(30000)}
DurPairs == {<<Ms(4000), Ms(8000)>>, <<Ms(4000), Ms(4000)>>, <<Ms(5), Ms(2500)>>,
             <<0, Ms(8000)>>}

SegInit ==
    /\ segPc = "loop"
    /\ sceneCuts \in CutLists
    /\ totalDur \in TotalDurs
    /\ \E p \in DurPairs : minDurSec = p[1] /\ maxDurSec = p[2]
    /\ segs = <<>>
    /\ curStart = 0
    /\ idx = 0
    /\ returnedSegs = <<>>

SegIdle ==
    /\ segPc = "idle"
    /\ sceneCuts = <<>>
    /\ totalDur = 0
    /\ minDurSec = 0
    /\ maxDurSec = 0
    /\ segs = <<>>
    /\ curStart = 0
    /\ idx = 0
    /\ returnedSegs = <<>>

SegNext ==
    \/ SegStep
    \/ SegReturn
    \/ SegCall


----------------------------------------------------------------------------
(* run_experiment.mjs: main and runPerSceneFlow.  decideBitrateForSegment and
   runPerSceneEncode are seen from the driver: each call returns or throws. *)

isImplementationSupported(codec, implementation) ==
    IF implementation = "cpu" THEN TRUE
    ELSE IF implementation = "nvenc"
    THEN codec = "libx264" \/ codec = "libx265" \/ codec = "libaom-av1"
    ELSE FALSE

\* the experiment matrix of the runs explored
modesToRun == <<"per_scene", "ai_preprocess+per_scene">>
heightList == <<1080>>
codecs == <<"libx264", "libvpx-vp9">>
implementations == <<"cpu", "nvenc">>

\* segments.length of the source file
NumSegments == 2

\* the nested for loops over heightList, codecs and implementations, in order
Configs ==
    [k \in 1..(Len(heightList) * Len(codecs) * Len(implementations)) |->
        LET h == (k - 1) \div (Len(codecs) * Len(implementations))
            c == ((k - 1) \div Len(implementations)) % Len(codecs)
            i == (k - 1) % Len(implementations)
        IN  [height |-> heightList[h + 1], codec |-> codecs[c + 1],
             implementation |-> implementations[i + 1]]]

current == [mode |-> modesToRun[modeIndex], config |-> Configs[cfgIndex]]

\* for (const mode of modesToRun): the preprocessing of the mode and
\* fetchSegments at the top of runPerSceneFlow succeed
BeginMode ==
    /\ drvPc = "mode"
    /\ modeIndex <= Len(modesToRun)
    /\ cfgIndex' = 1
    /\ drvPc' = "config"
    /\ UNCHANGED <<modeIndex, index, prevResult, plan, summaryRows, written, calls>>
    /\ NotDrv

\* the AI preprocessing or the scene detection throws outside every try
\* block: main rejects and the process exits
ModeSetupFailure ==
    /\ drvPc = "mode"
    /\ modeIndex <= Len(modesToRun)
    /\ drvPc' = "aborted"
    /\ UNCHANGED <<modeIndex, cfgIndex, index, prevResult, plan, summaryRows, written, calls>>
    /\ NotDrv

\* if (!isImplementationSupported(codec, implementation)) continue
SkipConfig ==
    /\ drvPc = "config"
    /\ cfgIndex <= Len(Configs)
    /\ ~isImplementationSupported(Configs[cfgIndex].codec, Configs[cfgIndex].implementation)
    /\ cfgIndex' = cfgIndex + 1
    /\ UNCHANGED <<drvPc, modeIndex, index, prevResult, plan, summaryRows, written, calls>>
    /\ NotDrv

\* variant of EnterConfig: previousResult declared outside the loops over the
\* configurations, so that it is not reset when a configuration begins
EnterConfigKeepingPrevious ==
    /\ drvPc = "config"
    /\ cfgIndex <= Len(Configs)
    /\ isImplementationSupported(Configs[cfgIndex].codec, Configs[cfgIndex].implementation)
    /\ plan' = <<>>
    /\ index' = 0
    /\ drvPc' = "segment"
    /\ UNCHANGED <<modeIndex, cfgIndex, prevResult, summaryRows, written, calls>>
    /\ NotDrv

\* the try block opens: prevResult = null, plan = [], index = 0
EnterConfig ==
    /\ drvPc = "config"
    /\ cfgIndex <= Len(Configs)
    /\ isImplementationSupported(Configs[cfgIndex].codec, Configs[cfgIndex].implementation)
    /\ prevResult' = <<>>
    /\ plan' = <<>>
    /\ index' = 0
    /\ drvPc' = "segment"
    /\ UNCHANGED <<modeIndex, cfgIndex, summaryRows, written, calls>>
    /\ NotDrv

\* the nested loops of runPerSceneFlow are over: next mode
EndMode ==
    /\ drvPc = "config"
    /\ cfgIndex > Len(Configs)
    /\ modeIndex' = modeIndex + 1
    /\ drvPc' = "mode"
    /\ UNCHANGED <<cfgIndex, index, prevResult, plan, summaryRows, written, calls>>
    /\ NotDrv

\* the object decideBitrateForSegment returns for the segment at hand; the
\* driver hands it on without reading it, so it is kept as the identity of
\* the call that produced it
decision == [mode |-> current.mode, config |-> current.config, index |-> index]

\* the call passes previousSegmentResult: previousResult and the literal
\* useAdaptiveSearch: true; returned is <<>> when the call throws
decideCall(ok) ==
    [kind |-> "decide", mode |-> current.mode, config |-> current.config,
     index |-> index, previous |-> prevResult, useAdaptiveSearch |-> TRUE, ok |-> ok,
     returned |-> IF ok THEN <<decision>> ELSE <<>>]

encodeCall(ok) ==
    [kind |-> "encode", mode |-> current.mode, config |-> current.config,
     index |-> index, previous |-> prevResult, ok |-> ok]

\* decideBitrateForSegment returns: prevResult = result; plan.push(result)
DecideSegment ==
    /\ drvPc = "segment"
    /\ index < NumSegments
    /\ prevResult' = <<decision>>
    /\ plan' = Append(plan, decision)
    /\ index' = index + 1
    /\ calls' = Append(calls, decideCall(TRUE))
    /\ UNCHANGED <<drvPc, modeIndex, cfgIndex, summaryRows, written>>
    /\ NotDrv

\* variant of DecideThrows: the inner catch logs without rethrowing, the
\* segment loop goes on with the next segment
DecideThrowsSwallowed ==
    /\ drvPc = "segment"
    /\ index < NumSegments
    /\ calls' = Append(calls, decideCall(FALSE))
    /\ index' = index + 1
    /\ UNCHANGED <<drvPc, modeIndex, cfgIndex, prevResult, plan, summaryRows, written>>
    /\ NotDrv

\* decideBitrateForSegment throws: the inner catch rethrows, the outer catch
\* logs and the implementation loop goes on
DecideThrows ==
    /\ drvPc = "segment"
    /\ index < NumSegments
    /\ calls' = Append(calls, decideCall(FALSE))
    /\ cfgIndex' = cfgIndex + 1
    /\ drvPc' = "config"
    /\ UNCHANGED <<modeIndex, index, prevResult, plan, summaryRows, written>>
    /\ NotDrv

\* runPerSceneEncode and the statistics succeed: summaryRows.push(...)
FinalEncode ==
    /\ drvPc = "segment"
    /\ index >= NumSegments
    /\ calls' = Append(calls, encodeCall(TRUE))
    /\ summaryRows' = Append(summaryRows, [mode |-> current.mode, config |-> current.config,
                                           finalEncodeCount |-> NumSegments])
    /\ cfgIndex' = cfgIndex + 1
    /\ drvPc' = "config"
    /\ UNCHANGED <<modeIndex, index, prevResult, plan, written>>
    /\ NotDrv

\* runPerSceneEncode throws: the outer catch logs and the loop goes on
FinalEncodeThrows ==
    /\ drvPc = "segment"
    /\ index >= NumSegments
    /\ calls' = Append(calls, encodeCall(FALSE))
    /\ cfgIndex' = cfgIndex + 1
    /\ drvPc' = "config"
    /\ UNCHANGED <<modeIndex, index, prevResult, plan, summaryRows, written>>
    /\ NotDrv

\* after the loop over the modes: writeFileSync(summaryPath, summaryRows)
WriteSummary ==
    /\ drvPc = "mode"
    /\ modeIndex > Len(modesToRun)
    /\ written' = <<summaryRows>>
    /\ drvPc' = "done"
    /\ UNCHANGED <<modeIndex, cfgIndex, index, prevResult, plan, summaryRows, calls>>
    /\ NotDrv

\* the values of the key useAdaptiveBitrateSearch in the configuration file
FlagValues == {"true", "false", "missing"}

DrvInit ==
    /\ useAdaptiveBitrateSearch \in FlagValues
    /\ drvPc = "mode"
    /\ modeIndex = 1
    /\ cfgIndex = 1
    /\ index = 0
    /\ prevResult = <<>>
    /\ plan = <<>>
    /\ summaryRows = <<>>
    /\ written = <<>>
    /\ calls = <<>>

DrvIdle ==
    /\ useAdaptiveBitrateSearch = "missing"
    /\ drvPc = "idle"
    /\ modeIndex = 1
    /\ cfgIndex = 1
    /\ index = 0
    /\ prevResult = <<>>
    /\ plan = <<>>
    /\ summaryRows = <<>>
    /\ written = <<>>
    /\ calls = <<>>

DrvNext ==
    \/ BeginMode
    \/ ModeSetupFailure
    \/ SkipConfig
    \/ EnterConfig
    \/ EndMode
    \/ DecideSegment
    \/ DecideThrows
    \/ FinalEncode
    \/ FinalEncodeThrows
    \/ WriteSummary


----------------------------------------------------------------------------
(* decideBitrateForSegment with useAdaptiveSearch = false: linear probing *)

\* scores the encoder and the VMAF tool may answer for a candidate
LinScores == {linTargetVmaf - Score(100), linTargetVmaf, linTargetVmaf + Score(200)}

reaching(cands, target) ==
    LET reaches(c) == c.vmaf >= target
    IN  SelectSeq(cands, reaches)

\* seq.sort((a, b) => b.kbps - a.kbps)[0]: the highest bitrate, the earliest
\* pushed among equals
highestBitrateFirst(seq) ==
    seq[CHOOSE i \in 1..Len(seq) :
          \A j \in 1..Len(seq) :
             \/ seq[j].kbps < seq[i].kbps
             \/ seq[j].kbps = seq[i].kbps /\ j >= i]

\* variant of pickCandidate: the list taken as ascending, no sort
pickCandidateUnsorted(cands, target) ==
    IF reaching(cands, target) # <<>>
    THEN reaching(cands, target)[1]
    ELSE cands[Len(cands)]

\* const ok = candidates.filter(...).sort(...); pick = ok.length > 0 ? ok[0] : candidates.sort(...)[0]
pickCandidate(cands, target) ==
    IF reaching(cands, target) # <<>>
    THEN LowestKbps(reaching(cands, target))
    ELSE highestBitrateFirst(cands)

\* encodeReference returns
LinStart ==
    /\ linPc = "start"
    /\ linPc' = "for"
    /\ UNCHANGED <<probeBitratesKbps, linTargetVmaf, candidates, linEncodeCalls, linResult>>
    /\ NotLin

\* encodeReference throws
LinReferenceFailure ==
    /\ linPc = "start"
    /\ linPc' = "thrown"
    /\ UNCHANGED <<probeBitratesKbps, linTargetVmaf, candidates, linEncodeCalls, linResult>>
    /\ NotLin

\* one iteration of for (const kbps of probeBitratesKbps)
LinProbe ==
    /\ linPc = "for"
    /\ Len(candidates) < Len(probeBitratesKbps)
    /\ LET kbps == probeBitratesKbps[Len(candidates) + 1]
       IN  \E vmafScore \in LinScores :
              candidates' = Append(candidates, [kbps |-> kbps, vmaf |-> vmafScore])
    /\ linEncodeCalls' = linEncodeCalls + 1
    /\ UNCHANGED <<linPc, probeBitratesKbps, linTargetVmaf, linResult>>
    /\ NotLin

\* encodeSegment or measureVmaf throws inside the for loop
LinProbeFailure ==
    /\ linPc = "for"
    /\ Len(candidates) < Len(probeBitratesKbps)
    /\ linEncodeCalls' = linEncodeCalls + 1
    /\ linPc' = "thrown"
    /\ UNCHANGED <<probeBitratesKbps, linTargetVmaf, candidates, linResult>>
    /\ NotLin

\* after the loop: the pick and the return; pick.kbps of an empty candidate
\* list raises a TypeError
LinReturn ==
    /\ linPc = "for"
    /\ Len(candidates) >= Len(probeBitratesKbps)
    /\ IF candidates = <<>>
       THEN linPc' = "thrown" /\ UNCHANGED linResult
       ELSE /\ linResult' = <<[chosenBitrateKbps |-> pickCandidate(candidates, linTargetVmaf).kbps,
                               estVmaf |-> pickCandidate(candidates, linTargetVmaf).vmaf,
                               probesUsed |-> Len(candidates)]>>
            /\ linPc' = "done"
    /\ UNCHANGED <<probeBitratesKbps, linTargetVmaf, candidates, linEncodeCalls>>
    /\ NotLin

\* the candidate lists explored: every list of at most MaxCandidates entries,
\* in any order, repetitions included
MaxCandidates == 3
LinBitrates == {Kbps(600), Kbps(1000), Kbps(1500), Kbps(2500)}
CandidateLists == UNION {[1..n -> LinBitrates] : n \in 0..MaxCandidates}

LinInit ==
    /\ linPc = "start"
    /\ probeBitratesKbps \in CandidateLists
    /\ linTargetVmaf \in Targets
    /\ candidates = <<>>
    /\ linEncodeCalls = 0
    /\ linResult = <<>>

LinIdle ==
    /\ linPc = "idle"
    /\ probeBitratesKbps = <<>>
    /\ linTargetVmaf = 0
    /\ candidates = <<>>
    /\ linEncodeCalls = 0
    /\ linResult = <<>>

LinNext ==
    \/ LinStart
    \/ LinReferenceFailure
    \/ LinProbe
    \/ LinProbeFailure
    \/ LinReturn

----------------------------------------------------------------------------
(* The codec tables: isImplementationSupported of the driver, getEncoderArgs
   of encodeSegment, resolveVideoArgs of exportFinalSegment.  An argument
   string is kept as the record of its options; null is <<>>. *)

\* `-maxrate ${Math.round(bitrateKbps * 1.2)}k -bufsize ${Math.round(bitrateKbps * 2.5)}k`
rateControl(bitrateKbps) ==
    [maxrate |-> RoundKbps(12 * bitrateKbps, 10 * Unit),
     bufsize |-> RoundKbps(25 * bitrateKbps, 10 * Unit)]

\* 1837.5 kbps, an extra probe's bitrate: 1.5 * 1225
highBitrateOdd == (3 * Kbps(1225)) \div 2

getCpuEncoderArgs(codec, bitrateKbps, gopFrames) ==
    IF codec \in {"libx264", "libx265"}
    THEN <<[cv |-> codec, preset |-> "slow", bv |-> bitrateKbps, g |-> gopFrames,
            keyint_min |-> gopFrames, bf |-> 3]>>
    ELSE IF codec = "libvpx-vp9"
    THEN <<[cv |-> codec, deadline |-> "good", bv |-> bitrateKbps, g |-> gopFrames,
            keyint_min |-> gopFrames]>>
    ELSE IF codec = "libsvtav1"
    THEN <<[cv |-> codec, bv |-> bitrateKbps, g |-> gopFrames, keyint_min |-> gopFrames]>>
    ELSE <<>>

getNvencEncoderArgs(codec, bitrateKbps, gopFrames) ==
    LET nvenc(cv, preset) ==
            <<[cv |-> cv, preset |-> preset, bv |-> bitrateKbps,
               maxrate |-> rateControl(bitrateKbps).maxrate,
               bufsize |-> rateControl(bitrateKbps).bufsize, g |-> gopFrames, bf |-> 3]>>
    IN  IF codec = "libx264" THEN nvenc("h264_nvenc", "slow")
        ELSE IF codec = "libx265" THEN nvenc("hevc_nvenc", "slow")
        ELSE IF codec = "libaom-av1" THEN nvenc("av1_nvenc", "p5")
        ELSE <<>>

getEncoderArgs(codec, implementation, bitrateKbps, gopFrames) ==
    IF implementation = "cpu" THEN getCpuEncoderArgs(codec, bitrateKbps, gopFrames)
    ELSE IF implementation = "nvenc" THEN getNvencEncoderArgs(codec, bitrateKbps, gopFrames)
    ELSE <<>>

resolveVideoArgs(codec, implementation, bitrateKbps, gopFrames) ==
    IF implementation = "cpu"
    THEN IF codec \in {"libx264", "libx265"}
         THEN <<[cv |-> codec, preset |-> "slow", bv |-> bitrateKbps, g |-> gopFrames,
                 keyint_min |-> gopFrames, bf |-> 3]>>
         ELSE IF codec = "libsvtav1"
         THEN <<[cv |-> codec, bv |-> bitrateKbps, g |-> gopFrames,
                 keyint_min |-> gopFrames]>>
         ELSE IF codec = "libvpx-vp9"
         THEN <<[cv |-> codec, deadline |-> "good", bv |-> bitrateKbps, g |-> gopFrames,
                 keyint_min |-> gopFrames]>>
         ELSE <<>>
    ELSE IF implementation = "nvenc"
    THEN LET nvenc(cv) ==
                 <<[cv |-> cv, preset |-> "p5", rc |-> "vbr_hq", bv |-> bitrateKbps,
                    maxrate |-> rateControl(bitrateKbps).maxrate,
                    bufsize |-> rateControl(bitrateKbps).bufsize, g |-> gopFrames, bf |-> 3]>>
         IN  IF codec = "libx264" THEN nvenc("h264_nvenc")
             ELSE IF codec = "libx265" THEN nvenc("hevc_nvenc")
             ELSE <<>>
    ELSE <<>>

\* runPerSceneFlow: if (!isImplementationSupported(codec, implementation)) continue
EncSkip ==
    /\ encPc = "driver"
    /\ ~isImplementationSupported(encCodec, encImplementation)
    /\ encPc' = "skipped"
    /\ UNCHANGED <<encCodec, encImplementation, encBitrateKbps, encGopFrames, probeArgs, finalArgs>>
    /\ NotEnc

\* the driver admits the configuration and goes on to probe it
EncAdmit ==
    /\ encPc = "driver"
    /\ isImplementationSupported(encCodec, encImplementation)
    /\ encPc' = "probe"
    /\ UNCHANGED <<encCodec, encImplementation, encBitrateKbps, encGopFrames, probeArgs, finalArgs>>
    /\ NotEnc

\* encodeSegment: videoArgs = getEncoderArgs(...); if (!videoArgs) throw
encodeSegment ==
    /\ encPc = "probe"
    /\ LET videoArgs == getEncoderArgs(encCodec, encImplementation, encBitrateKbps, encGopFrames)
       IN  IF videoArgs = <<>>
           THEN encPc' = "probeThrown" /\ UNCHANGED probeArgs
           ELSE encPc' = "final" /\ probeArgs' = videoArgs
    /\ UNCHANGED <<encCodec, encImplementation, encBitrateKbps, encGopFrames, finalArgs>>
    /\ NotEnc

\* exportFinalSegment: videoArgs = resolveVideoArgs(...); if (!videoArgs) throw
exportFinalSegment ==
    /\ encPc = "final"
    /\ LET videoArgs == resolveVideoArgs(encCodec, encImplementation, encBitrateKbps, encGopFrames)
       IN  IF videoArgs = <<>>
           THEN encPc' = "finalThrown" /\ UNCHANGED finalArgs
           ELSE encPc' = "done" /\ finalArgs' = videoArgs
    /\ UNCHANGED <<encCodec, encImplementation, encBitrateKbps, encGopFrames, probeArgs>>
    /\ NotEnc

\* the configurations explored
EncCodecs == {"libx264", "libx265", "libvpx-vp9", "libsvtav1", "libaom-av1"}
EncImplementations == {"cpu", "nvenc"}
EncBitrates == {Kbps(300), Kbps(1225), Kbps(2500), highBitrateOdd, Kbps(20000)}
EncGopFrames == {1, 60, 120}

EncInit ==
    /\ encPc = "driver"
    /\ encCodec \in EncCodecs
    /\ encImplementation \in EncImplementations
    /\ encBitrateKbps \in EncBitrates
    /\ encGopFrames \in EncGopFrames
    /\ probeArgs = <<>>
    /\ finalArgs = <<>>

EncIdle ==
    /\ encPc = "idle"
    /\ encCodec = ""
    /\ encImplementation = ""
    /\ encBitrateKbps = 0
    /\ encGopFrames = 0
    /\ probeArgs = <<>>
    /\ finalArgs = <<>>

EncNext ==
    \/ EncSkip
    \/ EncAdmit
    \/ encodeSegment
    \/ exportFinalSegment

----------------------------------------------------------------------------
(* The experiment server: POST /experiments creates a task and its worker
   thread; the worker runs runExperiment and posts messages; the listeners of
   attachWorkerListeners handle the messages and the 'error' and 'exit'
   events of the worker.  The messages of one worker arrive in the order
   posted; its 'error' and 'exit' events may be handled before or after
   messages still in flight. *)

\* the ids POST /experiments hands out (randomUUID)
TaskIds == {"a", "b"}

\* summaryRow and log messages one worker posts at most
MaxMessages == 1

\* POST /experiments with an inputFile: the worker is started, the task is
\* put in the Map with status "running", the listeners are attached
postExperiments(t) ==
    /\ tasks[t].status = "none"
    /\ tasks' = [tasks EXCEPT ![t] = [status |-> "running", summaryRows |-> 0, logs |-> 0,
                                      error |-> "null", worker |-> TRUE]]
    /\ workers' = [workers EXCEPT ![t].pc = "running"]
    /\ NotSrv

\* onSummaryRow: parentPort.postMessage({ type: "summaryRow", payload: row })
postSummaryRow(t) ==
    /\ workers[t].pc = "running"
    /\ workers[t].posted < MaxMessages
    /\ workers' = [workers EXCEPT ![t].inbox = Append(@, "summaryRow"),
                                  ![t].posted = @ + 1,
                                  ![t].rows = @ + 1]
    /\ UNCHANGED tasks
    /\ NotSrv

\* onLog: parentPort.postMessage({ type: "log", message })
postLog(t) ==
    /\ workers[t].pc = "running"
    /\ workers[t].posted < MaxMessages
    /\ workers' = [workers EXCEPT ![t].inbox = Append(@, "log"),
                                  ![t].posted = @ + 1]
    /\ UNCHANGED tasks
    /\ NotSrv

\* variant of postDone: the worker goes on running after the done message
postDoneAndGoOn(t) ==
    /\ workers[t].pc = "running"
    /\ workers' = [workers EXCEPT ![t].inbox = Append(@, "done")]
    /\ UNCHANGED tasks
    /\ NotSrv

\* runExperiment returns: parentPort.postMessage({ type: "done", payload: result });
\* main returns, nothing is left to run in the thread
postDone(t) ==
    /\ workers[t].pc = "running"
    /\ workers' = [workers EXCEPT ![t].inbox = Append(@, "done"),
                                  ![t].pc = "finished"]
    /\ UNCHANGED tasks
    /\ NotSrv

\* runExperiment throws: the catch block posts { type: "error", error }
postError(t) ==
    /\ workers[t].pc = "running"
    /\ workers' = [workers EXCEPT ![t].inbox = Append(@, "error"),
                                  ![t].pc = "finished"]
    /\ UNCHANGED tasks
    /\ NotSrv

\* an exception escapes the worker's code (a failing import, a failure inside
\* the catch block, memory exhaustion): the thread is torn down and the
\* Worker object emits 'error'
uncaughtException(t) ==
    /\ workers[t].pc = "running"
    /\ workers' = [workers EXCEPT ![t].errorEvent = TRUE,
                                  ![t].pc = "crashed"]
    /\ UNCHANGED tasks
    /\ NotSrv

\* the thread ends: exit code 0 after main returned, 1 after an uncaught
\* exception, 1 also when the thread is ended from outside while running
workerExit(t) ==
    /\ workers[t].pc \in {"running", "finished", "crashed"}
    /\ workers' = [workers EXCEPT ![t].exitEvent = <<IF workers[t].pc = "finished" THEN 0 ELSE 1>>,
                                  ![t].pc = "exited"]
    /\ UNCHANGED tasks
    /\ NotSrv

\* worker.on("message", ...), lines 73-103, for the message at the head
onMessage(t) ==
    /\ workers[t].inbox # <<>>
    /\ LET message == Head(workers[t].inbox)
       IN  tasks' =
             IF message = "summaryRow"
             THEN [tasks EXCEPT ![t].summaryRows = @ + 1]
             ELSE IF message = "log"
             THEN [tasks EXCEPT ![t].logs = @ + 1]
             ELSE IF message = "done"
             THEN [tasks EXCEPT ![t].status = "completed",
                                ![t].summaryRows = workers[t].rows]
             ELSE [tasks EXCEPT ![t].status = "failed", ![t].error = "message"]
    /\ workers' = [workers EXCEPT ![t].inbox = Tail(@)]
    /\ NotSrv

\* worker.on("error", ...), lines 105-109
onError(t) ==
    /\ workers[t].errorEvent
    /\ tasks' = [tasks EXCEPT ![t].status = "failed", ![t].error = "worker"]
    /\ workers' = [workers EXCEPT ![t].errorEvent = FALSE]
    /\ NotSrv

\* worker.on("exit", ...), lines 111-120
onExit(t) ==
    /\ workers[t].exitEvent # <<>>
    /\ LET code == workers[t].exitEvent[1]
       IN  tasks' =
             IF code # 0 /\ tasks[t].status # "failed" /\ tasks[t].status # "completed"
             THEN [tasks EXCEPT ![t].status = "failed", ![t].error = "exit",
                                ![t].worker = FALSE]
             ELSE [tasks EXCEPT ![t].worker = FALSE]
    /\ workers' = [workers EXCEPT ![t].exitEvent = <<>>]
    /\ NotSrv

\* const tasks = new Map(): no task yet, no worker started
SrvInit ==
    /\ tasks = [t \in TaskIds |-> [status |-> "none", summaryRows |-> 0, logs |-> 0,
                                    error |-> "null", worker |-> FALSE]]
    /\ workers = [t \in TaskIds |-> [pc |-> "none", posted |-> 0, rows |-> 0, inbox |-> <<>>,
                                      errorEvent |-> FALSE, exitEvent |-> <<>>]]

SrvIdle == SrvInit

SrvNext ==
    \E t \in TaskIds :
        \/ postExperiments(t)
        \/ postSummaryRow(t)
        \/ postLog(t)
        \/ postDone(t)
        \/ postError(t)
        \/ uncaughtException(t)
        \/ workerExit(t)
        \/ onMessage(t)
        \/ onError(t)
        \/ onExit(t)

Next ==
    \/ Start
    \/ Probe
    \/ LoopEnd
    \/ BonusProbe
    \/ NoBonus
    \/ Return
    \/ ReferenceFailure
    \/ ProbeFailure

\* one call of adaptiveBitrateSearch on every input of DecideInit
Init == DecideInit /\ SegIdle /\ DrvIdle /\ LinIdle /\ ChainIdle /\ EncIdle /\ SrvIdle

Spec == Init /\ [][Next]_vars

\* one call of buildSegments on every input of SegInit
SegSpecInit == SegInit /\ DecideIdle /\ DrvIdle /\ LinIdle /\ ChainIdle /\ EncIdle /\ SrvIdle

SegSpec == SegSpecInit /\ [][SegNext]_vars

\* one call of decideBitrateForSegment with useAdaptiveSearch = false
LinSpecInit == LinInit /\ DecideIdle /\ SegIdle /\ DrvIdle /\ ChainIdle /\ EncIdle /\ SrvIdle

LinSpec == LinSpecInit /\ [][LinNext]_vars

DrvSpecInit == DrvInit /\ DecideIdle /\ SegIdle /\ LinIdle /\ ChainIdle /\ EncIdle /\ SrvIdle

\* one run of the driver; the driver is sequential code that keeps running
\* until main returns or rejects
DrvSpec == DrvSpecInit /\ [][DrvNext]_vars /\ WF_vars(DrvNext)

ChainNext ==
    \/ Next
    \/ NextCall

ChainSpecInit == ChainInit /\ SegIdle /\ DrvIdle /\ LinIdle /\ EncIdle /\ SrvIdle

\* the calls of adaptiveBitrateSearch for the segments of one configuration
ChainSpec == ChainSpecInit /\ [][ChainNext]_vars

EncSpecInit == EncInit /\ DecideIdle /\ SegIdle /\ DrvIdle /\ LinIdle /\ ChainIdle /\ SrvIdle

\* one configuration checked by the driver, probed and exported
EncSpec == EncSpecInit /\ [][EncNext]_vars

SrvSpecInit ==
    SrvInit /\ DecideIdle /\ SegIdle /\ DrvIdle /\ LinIdle /\ ChainIdle /\ EncIdle

\* the server with the tasks of TaskIds and their workers
SrvSpec == SrvSpecInit /\ [][SrvNext]_vars


----------------------------------------------------------------------------
(* Properties of one adaptiveBitrateSearch call (specification Spec) *)

Range(seq) == {seq[i] : i \in 1..Len(seq)}

\* the probes of the while loop are the first probeCount entries of
\* probeResults; an entry after them is the extra probe
IsLoopProbe(i) == i <= probeCount

returned == result[1]
returnedProbe == [kbps |-> returned.chosenBitrateKbps, vmaf |-> returned.estVmaf]

\* C1 (original statement): every bitrate handed to the encoder in one call,
\* the extra probe after the loop included, lies within the adjusted range
\* [range.min, range.max].
C1_AllProbesInAdjustedRange ==
    \A i \in 1..Len(probeResults) :
        range.min <= probeResults[i].kbps /\ probeResults[i].kbps <= range.max

\* C1 (amended): every bitrate the while loop hands to the encoder lies within
\* the adjusted range; the extra probe after the loop lies within
\* [range.max, strategy.max].  Covers the recorded probes and the candidate
\* about to be encoded.
C1_LoopProbesInAdjustedRange ==
    /\ \A i \in 1..Len(probeResults) :
          IF IsLoopProbe(i)
          THEN range.min <= probeResults[i].kbps /\ probeResults[i].kbps <= range.max
          ELSE range.max <= probeResults[i].kbps /\ probeResults[i].kbps <= strategy.max
    /\ (pc = "loop" /\ LoopCondition) =>
          (range.min <= currentBitrate /\ currentBitrate <= range.max)
    /\ (pc = "bonus" /\ BonusCondition) =>
          (range.max <= highBitrate /\ highBitrate <= strategy.max)

\* a call with a previous decision that probed in the loop and then issued
\* the extra probe above the adjusted range
C1_Witness ==
    /\ pc = "done"
    /\ previousSegmentResult # <<>>
    /\ probeCount >= 2
    /\ Len(probeResults) = probeCount + 1
    /\ probeResults[Len(probeResults)].kbps > range.max

\* C2: one call issues at most maxProbes + 1 candidate encodes, and the
\* returned probesUsed is the number of candidate encodes issued.
C2_ProbeBudget ==
    /\ encodeCalls <= maxProbes + 1
    /\ pc = "done" =>
          /\ returned.probesUsed = encodeCalls
          /\ returned.probesUsed <= maxProbes + 1

\* a returned call whose extra probe followed loop probes
C2_Witness ==
    /\ pc = "done"
    /\ probeCount >= 3
    /\ encodeCalls = probeCount + 1
    /\ returned.probesUsed = probeCount + 1

\* C3: the returned decision is a recorded probe chosen by priority: the
\* lowest bitrate in the band, else the lowest bitrate reaching the target,
\* else the highest score; probes (3000, 95.4) and (2800, 95.1) with target 95
\* select 2800.
C3_SelectionPriority ==
    /\ pc = "done" =>
          LET band == {p \in Range(probeResults) : InBand(p)}
              ok == {p \in Range(probeResults) : Acceptable(p)}
          IN  /\ returnedProbe \in Range(probeResults)
              /\ IF band # {}
                 THEN returnedProbe \in band /\ \A p \in band : returnedProbe.kbps <= p.kbps
                 ELSE IF ok # {}
                 THEN returnedProbe \in ok /\ \A p \in ok : returnedProbe.kbps <= p.kbps
                 ELSE \A p \in Range(probeResults) : p.vmaf <= returnedProbe.vmaf
    /\ targetVmaf = Score(9500) =>
          select(<<[kbps |-> Kbps(3000), vmaf |-> Score(9540)],
                   [kbps |-> Kbps(2800), vmaf |-> Score(9510)]>>).kbps = Kbps(2800)

\* a returned call with a probe below the target, a probe above the band at
\* a higher bitrate, and the in-band probe that was selected
C3_Witness ==
    /\ pc = "done"
    /\ InBand(returnedProbe)
    /\ \E p \in Range(probeResults) : p.vmaf > targetMax /\ p.kbps > returnedProbe.kbps
    /\ \E p \in Range(probeResults) : p.vmaf < targetMin

\* the scenario of C4: the linear oracle, target 95, no previous decision, a
\* tier whose base range contains 9500 kbps
C4_Scenario ==
    /\ oracle = "linear"
    /\ targetVmaf = Score(9500)
    /\ previousSegmentResult = <<>>
    /\ strategy.min <= Kbps(9500) /\ Kbps(9500) <= strategy.max

\* C4 (original statement): in the scenario the call returns a bitrate in
\* [9400, 9550] after at most maxProbes probes.
C4_ConvergesInto9400To9550 ==
    (C4_Scenario /\ pc = "done") =>
        /\ Kbps(9400) <= returned.chosenBitrateKbps
        /\ returned.chosenBitrateKbps <= Kbps(9550)
        /\ returned.probesUsed <= maxProbes

\* C4 (amended): in the scenario the call returns, after at most maxProbes
\* probes, a probed bitrate in [9500, 9700] whose score reaches the target;
\* on the 1080p tier it is 9602 kbps with score 96.02.
C4_ConvergesInto9500To9700 ==
    (C4_Scenario /\ pc = "done") =>
        /\ Kbps(9500) <= returned.chosenBitrateKbps
        /\ returned.chosenBitrateKbps <= Kbps(9700)
        /\ returned.estVmaf >= targetVmaf
        /\ returned.probesUsed <= maxProbes
        /\ height = 1080 =>
              /\ returned.chosenBitrateKbps = Kbps(9602)
              /\ returned.estVmaf = Score(9602)

\* the scenario on the 1080p tier has returned
C4_Witness ==
    /\ C4_Scenario
    /\ height = 1080
    /\ pc = "done"
    /\ returned.probesUsed = 6

\* C5: when no probe of the call reaches the target, the call still returns:
\* the selection never meets an empty probe list, every step before the
\* return can be taken, and the returned quality is the highest score
\* observed, below the target.
C5_BestEffortDecision ==
    /\ pc = "select" => probeResults # <<>>
    /\ pc \in {"start", "loop", "bonus", "select"} =>
          ENABLED (Start \/ Probe \/ LoopEnd \/ BonusProbe \/ NoBonus \/ Return)
    /\ (pc = "done" /\ \A p \in Range(probeResults) : p.vmaf < targetVmaf) =>
          /\ returnedProbe \in Range(probeResults)
          /\ \A p \in Range(probeResults) : p.vmaf <= returned.estVmaf
          /\ returned.estVmaf < targetVmaf

\* a returned call whose probes all stayed below the target, with different
\* scores, the best one not being the first
C5_Witness ==
    /\ pc = "done"
    /\ Len(probeResults) >= 3
    /\ \A p \in Range(probeResults) : p.vmaf < targetVmaf
    /\ probeResults[1].vmaf < returned.estVmaf

\* C6: both endpoints of the range adjustSearchRange returns lie within
\* [strategy.min, strategy.max], whatever the previous decision.
C6_AdjustedRangeWithinBase ==
    pc # "start" =>
        /\ strategy.min <= range.min /\ range.min <= strategy.max
        /\ strategy.min <= range.max /\ range.max <= strategy.max

TierHeights ==
    Heights \cup UNION {{t - 1, t, t + 1} : t \in {2160, 1440, 1080, 720, 480, 360}}

notLarger(a, b) ==
    /\ a.max <= b.max
    /\ a.max - a.min <= b.max - b.min
    /\ a.maxProbes <= b.maxProbes

\* C11: every tier of the table has min <= max and maxProbes >= 1; for
\* heights h1 <= h2 the strategy of h2 has a maximum bitrate, a range width
\* and a probe budget not smaller than those of h1; the strategy a call works
\* with is a row of the table as written, at every step of the call.
C11_TableMonotonic ==
    /\ \A t \in DOMAIN strategies :
          strategies[t].min <= strategies[t].max /\ strategies[t].maxProbes >= 1
    /\ \A h1 \in TierHeights : \A h2 \in TierHeights :
          h1 <= h2 => notLarger(getBitrateStrategy(h1), getBitrateStrategy(h2))
    /\ \A h \in TierHeights :
          /\ h <= height => notLarger(getBitrateStrategy(h), strategy)
          /\ h >= height => notLarger(strategy, getBitrateStrategy(h))
    /\ pc # "idle" => strategy \in {strategies[t] : t \in DOMAIN strategies}

\* a finished call above the highest tier, served by the row of the 2160
\* tier, the largest of the table
C11_Witness ==
    /\ pc = "done"
    /\ height = 4320
    /\ previousSegmentResult = <<>>
    /\ strategy = strategies[2160]
    /\ range = [min |-> Kbps(5000), max |-> Kbps(20000)]
    /\ \A t \in DOMAIN strategies : notLarger(strategies[t], strategy)

\* the call of the @example of adjustSearchRange: the 1080p strategy
\* {1500, 10000, 6}, the previous result (3000 kbps, 94.5), target 95
C13_Example ==
    /\ pc \notin {"idle", "start"}
    /\ strategy = [min |-> Kbps(1500), max |-> Kbps(10000), maxProbes |-> 6]
    /\ previousSegmentResult = <<previous>>
    /\ targetVmaf = Score(9500)

IsRounded(r, n, d) == d * (2 * r - 1) <= 2 * n /\ 2 * n < d * (2 * r + 1)

\* the integer r with r = Math.round(n / d) satisfies P, r taken in kbps
RoundedSatisfies(n, d, P(_)) ==
    \E r \in {n \div d, (n \div d) + 1} : IsRounded(r, n, d) /\ P(Kbps(r))

C18_InBandProbeLowersMax ==
    \A i \in 1..Len(probeResults) :
        (IsLoopProbe(i) /\ InBand(probeResults[i])) => maxBitrate <= probeResults[i].kbps

\* the probes recorded by the while loop
loopProbes == SubSeq(probeResults, 1, probeCount)

\* C19: the extra probe is issued at most once per call and only after the
\* loop has ended; it is issued exactly when no loop probe reached the target
\* and fewer than maxProbes loop probes were used; its bitrate is
\* min(strategy.max, 1.5 * max) for the max the loop ended with.  In
\* particular a loop that used all maxProbes probes is followed by no extra
\* probe.
C19_ExtraProbe ==
    /\ Len(probeResults) - probeCount \in {0, 1}
    /\ encodeCalls <= probeCount + 1
    /\ pc \in {"start", "loop", "bonus"} => Len(probeResults) = probeCount
    /\ pc \in {"select", "done"} =>
          ((Len(probeResults) = probeCount + 1)
             <=> (/\ \A p \in Range(loopProbes) : p.vmaf < targetVmaf
                  /\ probeCount < maxProbes))
    /\ Len(probeResults) = probeCount + 1 =>
          LET extra == probeResults[Len(probeResults)].kbps
          IN  /\ 2 * extra = Min2(2 * strategy.max, 3 * maxBitrate)
              /\ pc \in {"select", "done"}
    /\ probeCount >= maxProbes => Len(probeResults) = probeCount

\* a call whose loop used all maxProbes probes, none reaching the target, and
\* returned without an extra probe
C19_Witness ==
    /\ pc = "done"
    /\ probeCount = maxProbes
    /\ Len(probeResults) = maxProbes
    /\ encodeCalls = maxProbes
    /\ \A p \in Range(probeResults) : p.vmaf < targetVmaf

\* v is round((lo + hi) / 2) and lies in [lo, hi]
IsMidpoint(v, lo, hi) ==
    /\ v % Unit = 0
    /\ IsRounded(v \div Unit, (lo + hi) \div Unit, 2)
    /\ lo <= v /\ v <= hi

\* the bracket lies in the adjusted range, and the candidate about to be
\* probed is the midpoint of the bracket
C20_BracketInRange ==
    (pc \in {"loop", "bonus", "select", "done"} /\ range.min <= range.max) =>
        /\ range.min <= minBitrate
        /\ minBitrate <= maxBitrate
        /\ maxBitrate <= range.max
        /\ pc = "loop" => IsMidpoint(currentBitrate, minBitrate, maxBitrate)

\* one step of the loop: an encode is issued only with probes left and a
\* bracket wider than 200; a recorded probe above the band moves max to the
\* candidate, one below the target moves min to it, one in the band ends the
\* loop with the bracket as it was; the loop goes on only to a midpoint at
\* least 100 away, and ends when the next midpoint is nearer
C20_LoopStep ==
    (pc = "loop" /\ range.min <= range.max) =>
        /\ encodeCalls' # encodeCalls =>
              probeCount < maxProbes /\ maxBitrate - minBitrate > Kbps(200)
        /\ (pc' = "bonus" /\ probeCount' = probeCount) =>
              (probeCount >= maxProbes \/ maxBitrate - minBitrate <= Kbps(200))
        /\ probeCount' # probeCount =>
              LET probe == probeResults'[Len(probeResults')]
                  next == RoundKbps(minBitrate' + maxBitrate', 2 * Unit)
              IN  /\ probeCount' = probeCount + 1
                  /\ probeResults' = Append(probeResults, probe)
                  /\ probe.kbps = currentBitrate
                  /\ minBitrate <= minBitrate' /\ maxBitrate' <= maxBitrate
                  /\ probe.vmaf > targetVmaf + Score(50) =>
                        maxBitrate' = currentBitrate /\ minBitrate' = minBitrate
                  /\ probe.vmaf < targetVmaf =>
                        minBitrate' = currentBitrate /\ maxBitrate' = maxBitrate
                  /\ InBand(probe) =>
                        /\ maxBitrate' = maxBitrate /\ minBitrate' = minBitrate
                        /\ pc' = "bonus"
                  /\ pc' = "loop" =>
                        /\ currentBitrate' = next
                        /\ Abs(currentBitrate' - currentBitrate) >= Kbps(100)
                  /\ (pc' = "bonus" /\ ~InBand(probe)) =>
                        Abs(next - currentBitrate) < Kbps(100)

C23_ProbesWithinBudget ==
    /\ maxProbes >= 1
    /\ encodeCalls <= maxProbes
    /\ Len(probeResults) <= maxProbes
    /\ pc = "select" => probeResults # <<>>
    /\ (pc \in {"select", "done"} /\ range.max - range.min <= Kbps(200)) =>
          /\ probeCount = 0
          /\ Len(probeResults) = 1
          /\ probeResults[1].kbps = highBitrate
    /\ pc = "done" =>
          /\ 1 <= returned.probesUsed
          /\ returned.probesUsed <= maxProbes
          /\ returned.probesUsed = Len(probeResults)
          /\ returnedProbe \in Range(probeResults)

\* a call whose adjusted range was less than 200 wide: the loop did not run
\* and the call returned its only probe, the extra one
C23_Witness ==
    /\ pc = "done"
    /\ range.min <= range.max
    /\ range.max - range.min <= Kbps(200)
    /\ probeCount = 0
    /\ returned.probesUsed = 1
    /\ returnedProbe = probeResults[1]

\* C24: whatever the scores, a recorded probe in the band has a lower
\* bitrate than every recorded probe above the band, so the two selection
\* rules (lowest in the band, lowest reaching the target) pick the same
\* probe; whenever a recorded probe reaches the target, the returned bitrate
\* is the lowest bitrate among the recorded probes that reach it.
C24_LowestQualifyingBitrate ==
    /\ \A i \in 1..Len(probeResults) : \A j \in 1..Len(probeResults) :
          (InBand(probeResults[i]) /\ probeResults[j].vmaf > targetMax) =>
              probeResults[i].kbps < probeResults[j].kbps
    /\ SelectSeq(probeResults, InBand) # <<>> =>
          LowestKbps(SelectSeq(probeResults, InBand))
              = LowestKbps(SelectSeq(probeResults, Acceptable))
    /\ pc = "done" =>
          LET ok == {p \in Range(probeResults) : p.vmaf >= targetVmaf}
          IN  ok # {} =>
                 /\ returnedProbe \in ok
                 /\ \A p \in ok : returned.chosenBitrateKbps <= p.kbps

\* a call on scores that do not grow with the bitrate (a higher bitrate
\* scored lower than a lower one): two probes above the band, and the
\* in-band probe returned
C24_Witness ==
    /\ pc = "done"
    /\ oracle = "free"
    /\ InBand(returnedProbe)
    /\ \E i \in 1..Len(probeResults) : \E j \in 1..Len(probeResults) :
          /\ probeResults[j].kbps > probeResults[i].kbps
          /\ probeResults[j].vmaf < probeResults[i].vmaf
    /\ Cardinality({i \in 1..Len(probeResults) : probeResults[i].vmaf > targetMax}) >= 2

\* a stored bitrate that is a whole number of kbps
IsWholeKbps(b) == b % Unit = 0

\* C26 (original statement): given a previous decision with an integer
\* bitrate, every bitrate handed to the encoder and every returned
\* chosenBitrateKbps is a whole number of kbps.
C26_AllBitratesWhole ==
    /\ \A i \in 1..Len(probeResults) : IsWholeKbps(probeResults[i].kbps)
    /\ pc = "done" => IsWholeKbps(returned.chosenBitrateKbps)

\* C26 (amended): given a previous decision with an integer bitrate, both
\* ends of the adjusted range and every bitrate the while loop hands to the
\* encoder are whole numbers of kbps; the extra probe is
\* min(strategy.max, 1.5 * max), a multiple of 0.5 kbps that is whole exactly
\* when it is capped at strategy.max or max is even; the returned
\* chosenBitrateKbps is whole unless the extra probe is the one chosen.
C26_LoopBitratesWhole ==
    /\ previousSegmentResult # <<>> => IsWholeKbps(previousSegmentResult[1].chosenBitrateKbps)
    /\ IsWholeKbps(range.min) /\ IsWholeKbps(range.max)
    /\ IsWholeKbps(minBitrate) /\ IsWholeKbps(maxBitrate)
    /\ IsWholeKbps(currentBitrate)
    /\ \A i \in 1..Len(probeResults) :
          IF IsLoopProbe(i)
          THEN IsWholeKbps(probeResults[i].kbps)
          ELSE /\ IsWholeKbps(2 * probeResults[i].kbps)
               /\ 2 * probeResults[i].kbps = Min2(2 * strategy.max, 3 * maxBitrate)
               /\ IsWholeKbps(probeResults[i].kbps)
                     <=> (\/ 3 * maxBitrate >= 2 * strategy.max
                          \/ (maxBitrate \div Unit) % 2 = 0)
    /\ pc = "done" =>
          \/ IsWholeKbps(returned.chosenBitrateKbps)
          \/ /\ Len(probeResults) = probeCount + 1
             /\ returnedProbe = probeResults[Len(probeResults)]

\* a call with an integer previous bitrate whose loop probed whole bitrates
\* and which returned its extra probe, at a bitrate ending in .5 kbps
C26_Witness ==
    /\ pc = "done"
    /\ previousSegmentResult # <<>>
    /\ probeCount >= 1
    /\ Len(probeResults) = probeCount + 1
    /\ returnedProbe = probeResults[Len(probeResults)]
    /\ returned.chosenBitrateKbps % Unit = Unit \div 2

\* C27: within one call no bitrate is encoded twice: the bitrates of the
\* loop probes are pairwise distinct, the candidate about to be encoded
\* differs from all of them, and the extra probe's bitrate is strictly
\* greater than that of every loop probe.
C27_NoBitrateProbedTwice ==
    /\ \A i \in 1..Len(probeResults) : \A j \in 1..Len(probeResults) :
          i # j => probeResults[i].kbps # probeResults[j].kbps
    /\ (pc = "loop" /\ LoopCondition) =>
          \A i \in 1..Len(probeResults) : probeResults[i].kbps # currentBitrate
    /\ (pc = "bonus" /\ BonusCondition) =>
          \A i \in 1..Len(probeResults) : probeResults[i].kbps < highBitrate
    /\ \A i \in 1..Len(probeResults) : \A j \in 1..Len(probeResults) :
          (IsLoopProbe(i) /\ ~IsLoopProbe(j)) => probeResults[i].kbps < probeResults[j].kbps

\* a call with a previous decision whose loop raised min several times and
\* whose extra probe followed, capped at the tier maximum
C27_Witness ==
    /\ pc = "done"
    /\ previousSegmentResult # <<>>
    /\ probeCount >= 3
    /\ Len(probeResults) = probeCount + 1
    /\ probeResults[Len(probeResults)].kbps = strategy.max
    /\ range.max = strategy.max


----------------------------------------------------------------------------
(* Properties of the chain of calls of one configuration (specification
   ChainSpec) *)

\* C25: in the chain of calls of one configuration, with scores and target
\* on the VMAF scale [0, 100], every adjusted range satisfies
\* strategy.min <= min <= max <= strategy.max, every bitrate encoded lies in
\* the base range, and so does every chosen bitrate.
C25_ChainStaysInBaseRange ==
    /\ 0 <= targetVmaf /\ targetVmaf <= Score(10000)
    /\ \A i \in 1..Len(probeResults) :
          /\ 0 <= probeResults[i].vmaf /\ probeResults[i].vmaf <= Score(10000)
          /\ strategy.min <= probeResults[i].kbps /\ probeResults[i].kbps <= strategy.max
    /\ pc \in {"loop", "bonus", "select", "done", "thrown"} =>
          /\ strategy.min <= range.min
          /\ range.min <= range.max
          /\ range.max <= strategy.max
    /\ pc = "done" =>
          /\ strategy.min <= returned.chosenBitrateKbps
          /\ returned.chosenBitrateKbps <= strategy.max
    /\ previousSegmentResult # <<>> =>
          /\ strategy.min <= previousSegmentResult[1].chosenBitrateKbps
          /\ previousSegmentResult[1].chosenBitrateKbps <= strategy.max

\* a later call of a chain, fed a decision that scored well above the
\* target: its range ends at the previous bitrate, strictly inside the base
\* range at both ends, and the call has returned after several probes
C25_Witness ==
    /\ callIndex >= 2
    /\ pc = "done"
    /\ previousSegmentResult # <<>>
    /\ previousSegmentResult[1].estVmaf - targetVmaf >= Score(300)
    /\ range.max = previousSegmentResult[1].chosenBitrateKbps
    /\ strategy.min < range.min
    /\ range.max < strategy.max
    /\ probeCount >= 2

----------------------------------------------------------------------------
(* Properties of one buildSegments call (specification SegSpec) *)

SegmentsContiguous ==
    /\ segs # <<>> => segs[1].start = 0
    /\ \A i \in 1..(Len(segs) - 1) : segs[i + 1].start = segs[i].end
    /\ \A i \in 1..Len(segs) : segs[i].end > segs[i].start

\* C7 (original statement): for totalDur > 0 the returned list is non-empty,
\* starts at 0, is contiguous with positive lengths, and its last segment
\* ends within 0.01 s of totalDur and not beyond it.
C7_NonEmptyPartition ==
    (segPc = "done" /\ totalDur > 0 /\ minDurSec > 0) =>
        /\ segs # <<>>
        /\ SegmentsContiguous
        /\ segs[Len(segs)].end <= totalDur
        /\ segs[Len(segs)].end >= totalDur - Ms(10)

\* C7 (amended): for totalDur > 0.01 s the returned list is non-empty, starts
\* at 0, is contiguous with positive lengths, and its last segment ends
\* within 0.01 s of totalDur and not beyond it; for 0 < totalDur <= 0.01 s the
\* returned list is empty.
C7_PartitionAboveEpsilon ==
    minDurSec > 0 =>
    /\ SegmentsContiguous
    /\ segPc = "done" =>
          IF totalDur > Ms(10)
          THEN /\ segs # <<>>
               /\ segs[Len(segs)].end <= totalDur
               /\ segs[Len(segs)].end >= totalDur - Ms(10)
          ELSE segs = <<>>

\* a returned list of several segments, cut at scene cuts, whose last
\* segment stops short of totalDur within the epsilon
C7_Witness ==
    /\ segPc = "done"
    /\ minDurSec > 0
    /\ Len(segs) >= 3
    /\ \E i \in 1..Len(segs) : segs[i].end \in Range(sceneCuts)
    /\ segs[Len(segs)].end < totalDur

\* C8: every returned segment except the last has end - start within
\* [minDurSec, maxDurSec]; the last one is at most maxDurSec long.
C8_DurationsWithinBounds ==
    (segPc = "done" /\ minDurSec > 0) =>
        /\ \A i \in 1..(Len(segs) - 1) :
              /\ segs[i].end - segs[i].start >= minDurSec
              /\ segs[i].end - segs[i].start <= maxDurSec
        /\ segs # <<>> => segs[Len(segs)].end - segs[Len(segs)].start <= maxDurSec

\* a returned list with a segment ended by a scene cut strictly inside the
\* window and a last segment shorter than minDurSec
C8_Witness ==
    /\ segPc = "done"
    /\ Len(segs) >= 3
    /\ \E i \in 1..(Len(segs) - 1) :
          /\ segs[i].end - segs[i].start > minDurSec
          /\ segs[i].end - segs[i].start < maxDurSec
    /\ segs[Len(segs)].end - segs[Len(segs)].start < minDurSec


----------------------------------------------------------------------------
(* Properties of one run of the per-scene driver (specification DrvSpec) *)

sameConfiguration(a, b) == a.mode = b.mode /\ a.config = b.config

\* the configurations of the matrix that the driver does not skip
SupportedConfigurations ==
    {[mode |-> modesToRun[m], config |-> Configs[k]] :
        m \in 1..Len(modesToRun),
        k \in {n \in 1..Len(Configs) :
                 isImplementationSupported(Configs[n].codec, Configs[n].implementation)}}

failedConfigurations ==
    {[mode |-> calls[i].mode, config |-> calls[i].config] :
        i \in {n \in 1..Len(calls) : ~calls[n].ok}}

rowConfigurations(rows) ==
    {[mode |-> rows[i].mode, config |-> rows[i].config] : i \in 1..Len(rows)}

\* a configuration is abandoned at its first failure: no decision and no
\* final encode of it is attempted afterwards, and it gets no summary row
C9_Abandoned ==
    /\ \A i \in 1..Len(calls) : \A j \in 1..Len(calls) :
          (i < j /\ ~calls[i].ok) => ~sameConfiguration(calls[i], calls[j])
    /\ failedConfigurations \cap rowConfigurations(summaryRows) = {}

\* when the run is over, every supported configuration of the matrix was
\* processed (it has a summary row or it failed), and the summary written
\* holds exactly the rows of the configurations that did not fail
C9_AllProcessed ==
    drvPc = "done" =>
        /\ written = <<summaryRows>>
        /\ rowConfigurations(summaryRows) \cup failedConfigurations = SupportedConfigurations
        /\ rowConfigurations(written[1]) = SupportedConfigurations \ failedConfigurations
        /\ Len(summaryRows) = Cardinality(rowConfigurations(summaryRows))

C22_DecisionChain ==
    \A n \in 1..Len(calls) :
        calls[n].kind = "decide" =>
            /\ calls[n].previous # <<>> => sameConfiguration(calls[n].previous[1], calls[n])
            /\ IF calls[n].index = 0
               THEN /\ calls[n].previous = <<>>
                    /\ \A k \in 1..(n - 1) : ~sameConfiguration(calls[k], calls[n])
               ELSE /\ n > 1
                    /\ calls[n - 1].kind = "decide"
                    /\ sameConfiguration(calls[n - 1], calls[n])
                    /\ calls[n - 1].index = calls[n].index - 1
                    /\ calls[n - 1].ok
                    /\ calls[n - 1].returned # <<>>
                    /\ calls[n].previous = calls[n - 1].returned

\* a run in which the last segment of one configuration was decided with
\* the decision of the segment before it, and the first segment of the next
\* configuration was then decided without a previous decision
C22_Witness ==
    \E n \in 1..Len(calls) : \E k \in 1..Len(calls) :
        /\ n < k
        /\ calls[n].kind = "decide" /\ calls[n].ok
        /\ calls[n].index = NumSegments - 1
        /\ calls[n].previous # <<>>
        /\ calls[k].kind = "decide" /\ calls[k].index = 0
        /\ ~sameConfiguration(calls[n], calls[k])
        /\ calls[k].previous = <<>>


----------------------------------------------------------------------------
(* Properties of one linear decision (specification LinSpec) *)

linReturned == [kbps |-> linResult[1].chosenBitrateKbps, vmaf |-> linResult[1].estVmaf]

\* C12: the linear decision encodes every entry of the candidate list once,
\* in the order given, reports probesUsed = the length of the list, and
\* returns the lowest-bitrate candidate whose score reaches the target, or,
\* when none does, the highest-bitrate candidate with its own score.
C12_LinearDecision ==
    /\ linEncodeCalls <= Len(probeBitratesKbps)
    /\ Len(candidates) <= linEncodeCalls
    /\ \A i \in 1..Len(candidates) : candidates[i].kbps = probeBitratesKbps[i]
    /\ linPc = "done" =>
          LET ok == {c \in Range(candidates) : c.vmaf >= linTargetVmaf}
          IN  /\ probeBitratesKbps # <<>>
              /\ linEncodeCalls = Len(probeBitratesKbps)
              /\ Len(candidates) = Len(probeBitratesKbps)
              /\ linResult[1].probesUsed = Len(probeBitratesKbps)
              /\ linReturned \in Range(candidates)
              /\ IF ok # {}
                 THEN linReturned \in ok /\ \A c \in ok : linReturned.kbps <= c.kbps
                 ELSE \A c \in Range(candidates) : c.kbps <= linReturned.kbps

\* a returned call on a list that is not sorted, whose lowest candidate
\* missed the target and whose qualifying candidates came in descending order
C12_Witness ==
    /\ linPc = "done"
    /\ probeBitratesKbps = <<Kbps(1500), Kbps(600), Kbps(1000)>>
    /\ candidates[1].vmaf >= linTargetVmaf
    /\ candidates[2].vmaf < linTargetVmaf
    /\ candidates[3].vmaf >= linTargetVmaf
    /\ linResult[1].chosenBitrateKbps = Kbps(1000)
    /\ linResult[1].probesUsed = 3


\* C14: the search mode of the per-scene driver follows the configuration:
\* every segment decision runs with useAdaptiveSearch = false when the key
\* useAdaptiveBitrateSearch is false, and with the adaptive search when the
\* key is true or missing.
C14_SearchModeFollowsConfiguration ==
    \A i \in 1..Len(calls) :
        calls[i].kind = "decide" =>
            calls[i].useAdaptiveSearch = (useAdaptiveBitrateSearch # "false")


----------------------------------------------------------------------------
(* Properties of repeated buildSegments calls (specification SegSpec) *)

----------------------------------------------------------------------------
(* Properties of the segment ends (specification SegSpec) *)

\* the scene cuts inside the window of a segment starting at start
cutsInWindow(start) ==
    {c \in Range(sceneCuts) :
        start + minDurSec <= c /\ c <= Min2(start + maxDurSec, totalDur)}

\* the start and end of every segment of a list
boundaries(list) == [i \in 1..Len(list) |-> <<list[i].start, list[i].end>>]

\* C21: every segment ends at the largest scene cut inside the window
\* [start + minDur, min(start + maxDur, totalDur)], or at
\* min(start + maxDur, totalDur) when the window holds no cut; an empty cut
\* list gives boundaries at the multiples of maxDur; totalDur <= 0 gives the
\* empty list; cuts [5.2, 12.5, 18.3, 25.6] with totalDur 30, minDur 4 and
\* maxDur 8 give [0,5.2], [5.2,12.5], [12.5,18.3], [18.3,25.6], [25.6,30].
C21_EndsAtLastCutInWindow ==
    /\ \A i \in 1..Len(segs) :
          LET window == cutsInWindow(segs[i].start)
          IN  IF window = {}
              THEN segs[i].end = Min2(segs[i].start + maxDurSec, totalDur)
              ELSE segs[i].end \in window /\ \A c \in window : c <= segs[i].end
    /\ sceneCuts = <<>> =>
          \A i \in 1..Len(segs) :
              /\ segs[i].start = (i - 1) * maxDurSec
              /\ segs[i].end = Min2(i * maxDurSec, totalDur)
    /\ totalDur <= 0 => segs = <<>>
    /\ (/\ segPc = "done"
        /\ sceneCuts = <<Ms(5200), Ms(12500), Ms(18300), Ms(25600)>>
        /\ totalDur = Ms(30000) /\ minDurSec = Ms(4000) /\ maxDurSec = Ms(8000)) =>
          boundaries(segs) = << <<0, Ms(5200)>>, <<Ms(5200), Ms(12500)>>,
                                <<Ms(12500), Ms(18300)>>, <<Ms(18300), Ms(25600)>>,
                                <<Ms(25600), Ms(30000)>> >>

\* a returned list with a segment whose window held two scene cuts and ended
\* at the later one, and a segment whose window held none
C21_Witness ==
    /\ segPc = "done"
    /\ \E i \in 1..Len(segs) :
          /\ Cardinality(cutsInWindow(segs[i].start)) >= 2
          /\ segs[i].end \in Range(sceneCuts)
    /\ \E i \in 1..Len(segs) :
          /\ cutsInWindow(segs[i].start) = {}
          /\ segs[i].end < totalDur

\* C28: with 0 <= minDur <= maxDur and maxDur > 0, every iteration of the
\* loop of buildSegments moves curStart forward by a positive amount: no
\* segment has zero length, and the call returns before the list grows to
\* MaxSegs entries.
C28_EveryIterationAdvances ==
    /\ 0 <= minDurSec /\ minDurSec <= maxDurSec /\ maxDurSec > 0
    /\ IsAscending(sceneCuts)
    /\ \A i \in 1..Len(segs) : segs[i].end > segs[i].start
    /\ Len(segs) < MaxSegs


----------------------------------------------------------------------------
(* Properties of the codec tables (specification EncSpec) *)

\* C29: for every codec of {libx264, libx265, libvpx-vp9, libsvtav1,
\* libaom-av1} and every implementation of {cpu, nvenc} that
\* isImplementationSupported accepts, getEncoderArgs and resolveVideoArgs
\* both return arguments, so that neither encodeSegment nor
\* exportFinalSegment throws for a configuration the driver admits.
C29_CodecTablesAgree ==
    /\ (/\ encCodec \in {"libx264", "libx265", "libvpx-vp9", "libsvtav1", "libaom-av1"}
        /\ encImplementation \in {"cpu", "nvenc"}
        /\ isImplementationSupported(encCodec, encImplementation)) =>
          /\ getEncoderArgs(encCodec, encImplementation, encBitrateKbps, encGopFrames) # <<>>
          /\ resolveVideoArgs(encCodec, encImplementation, encBitrateKbps, encGopFrames) # <<>>
    /\ encPc \notin {"probeThrown", "finalThrown"}


----------------------------------------------------------------------------
(* Properties of the experiment server (specification SrvSpec) *)

\* the status of every task in the Map is running, completed or failed
C30_StatusValues ==
    \A t \in TaskIds : tasks[t].status \in {"none", "running", "completed", "failed"}

\* a task enters the Map as running; a completed or failed task keeps its status
C30_StatusStep ==
    \A t \in TaskIds :
        /\ tasks[t].status = "none" => tasks'[t].status \in {"none", "running"}
        /\ tasks[t].status # "none" => tasks'[t].status # "none"
        /\ tasks[t].status \in {"completed", "failed"} => tasks'[t].status = tasks[t].status

\* C30: for every task and every order in which the events of its worker
\* are handled (summaryRow, log, done and error messages, the 'error' event,
\* the 'exit' event), the task status is one of running, completed, failed;
\* it is running when the task is created; once completed or failed it does
\* not change.
C30_TaskStatusSettlesOnce == [](C30_StatusValues) /\ [][C30_StatusStep]_vars

\* one task completed after its rows and logs, its worker exited and
\* detached; another task failed by an 'error' event handled while a
\* message of its worker was still in flight
C30_Witness ==
    \E t \in TaskIds : \E u \in TaskIds :
        /\ tasks[t].status = "completed"
        /\ ~tasks[t].worker
        /\ workers[t].pc = "exited"
        /\ tasks[u].status = "failed"
        /\ tasks[u].error = "worker"
        /\ workers[u].inbox # <<>>

====
